---- MODULE Spec2Model ----
(***************************************************************************)
(* IRL Co-Creation Wizard (src/IRL_framework.py): the feedback table, the  *)
(* per-session wizard state and the section-key derivation.                *)
(*                                                                         *)
(* Free text (feedback bodies, display names) is a sequence of one-        *)
(* character strings, so that str.strip() is modelled by what it does.     *)
(* Step names, taxonomy labels, section keys and user ids are strings;     *)
(* keys are built by concatenation as the f-string of the source does.     *)
(***************************************************************************)
EXTENDS Integers, Sequences, FiniteSets, TLC

\* ------------------------------------------------------------------ bounds

\* Highest row id the table hands out in a run of the model.
MaxId == 2
\* Most rows the sessions of the wizard submit in a run of the model.
MaxSubmits == 1
\* Last second the wall clock reaches in a run of the model.
MaxClock == 1
\* Longest text typed at the login form.
MaxLen == 3

\* ------------------------------------------------------- global config

PASSCODE == "DECODE"

WIZARD_STEPS ==
  << "Introduction", "Method Categories", "Parent Attributes",
     "Child Attributes", "Final Comments" >>

METHOD_CATEGORIES ==
  << "Simulations", "Modeling", "Characterization", "Testing", "Assessment" >>

PARENT_ATTRIBUTES ==
  << "Maturity", "Resource Requirements", "Interoperability",
     "Integration Complexity", "Utility" >>

\* The names (first tuple component) of the child attributes.
CHILD_ATTRIBUTES_DICT ==
     "Simulations" :> (
           "Maturity" :>
             << "Validation Level", "Numerical Stability", "Method Standardization" >>
        @@ "Resource Requirements" :>
             << "Licensing Costs", "Computational Demand", "Training Load" >>
        @@ "Interoperability" :>
             << "Data Format Compatibility", "Platform Independence", "API/Scripting Availability" >>
        @@ "Integration Complexity" :>
             << "Pre-processing Time", "Post-processing Tools", "Parameter Sensitivity & UQ Modules" >>
        @@ "Utility" :>
             << "Predictive Value", "Industry Alignment" >>
     )
  @@ "Modeling" :> (
           "Maturity" :>
             << "Theoretical Foundation Robustness", "Code Base Stability", "Parameter Validation" >>
        @@ "Resource Requirements" :>
             << "Software Cost", "Computational Efficiency", "Maintenance Overhead" >>
        @@ "Interoperability" :>
             << "Input Data Format Compatibility", "Model Coupling Capability", "Documentation & Standards" >>
        @@ "Integration Complexity" :>
             << "Implementation Complexity", "Sensitivity Analysis Tools", "Scalability" >>
        @@ "Utility" :>
             << "Predictive Accuracy vs. Project Goals", "Adoption Potential" >>
     )
  @@ "Characterization" :> (
           "Maturity" :>
             << "Resolution & Sensitivity", "Reproducibility", "Standard Protocol Acceptance" >>
        @@ "Resource Requirements" :>
             << "Equipment Investment", "Consumable Usage", "Labor Intensity" >>
        @@ "Interoperability" :>
             << "Hardware Compatibility", "Data Format Standardization", "Calibration Transferability" >>
        @@ "Integration Complexity" :>
             << "Setup Time", "Data Processing Complexity", "Detection Limit" >>
        @@ "Utility" :>
             << "Impact on Project KPIs", "Standardization Value" >>
     )
  @@ "Testing" :> (
           "Maturity" :>
             << "Test Protocol Stability", "Reliability Under Varied Conditions", "Reference to Industry Standards" >>
        @@ "Resource Requirements" :>
             << "Equipment Depreciation Rate", "Test Duration per Sample", "Energy Consumption per Cycle" >>
        @@ "Interoperability" :>
             << "Universality of Fixtures", "Software Integration Level", "Reporting Standardization" >>
        @@ "Integration Complexity" :>
             << "Setup Time", "Range of Test Conditions", "Fault Diagnosis Tools" >>
        @@ "Utility" :>
             << "Relevance to Performance Validation", "Data Quality for Scale-up" >>
     )
  @@ "Assessment" :> (
           "Maturity" :>
             << "Methodological Consensus", "Data Quality Requirements", "Update Frequency" >>
        @@ "Resource Requirements" :>
             << "Software/Database Licensing", "Data Acquisition Costs", "Analyst Training" >>
        @@ "Interoperability" :>
             << "Compatibility with Other Frameworks", "Database Integration", "Reporting Standards" >>
        @@ "Integration Complexity" :>
             << "Time to Results", "Sensitivity/Scenario Analysis Capability", "Scalability Across Systems" >>
        @@ "Utility" :>
             << "Decision-Making Impact", "Regulatory/Compliance Value" >>
     )

Range(f) == { f[i] : i \in DOMAIN f }

\* ------------------------------------------------------------------- text

\* Characters str.strip() removes.
Whitespace == { " ", "\t", "\n" }

RECURSIVE lstrip(_)
lstrip(t) ==
  IF t = << >> THEN << >>
  ELSE IF Head(t) \in Whitespace THEN lstrip(Tail(t)) ELSE t

RECURSIVE rstrip(_)
rstrip(t) ==
  IF t = << >> THEN << >>
  ELSE IF t[Len(t)] \in Whitespace THEN rstrip(SubSeq(t, 1, Len(t) - 1)) ELSE t

\* str.strip()
strip(t) == rstrip(lstrip(t))

Anonymous == << "A", "n", "o", "n", "y", "m", "o", "u", "s" >>

\* The description and the scoring range (second and third tuple component)
\* of the child attributes, in the order of CHILD_ATTRIBUTES_DICT; the euro sign
\* is written EUR and the en dash as a hyphen.
CHILD_ATTRIBUTES_TEXT ==
     "Simulations" :> (
           "Maturity" :>
             << << "How thoroughly the simulation method is validated against experimental or benchmark data.",
                   "1=No validation; 5=Some; 9=Extensively validated" >>,
                << "Frequency of solver crashes, convergence issues, or non-physical results.",
                   "1=Frequent instabilities; 5=Occasional issues; 9=Very stable" >>,
                << "Degree of standardized protocols, best practices, and accepted formats.",
                   "1=Ad-hoc; 5=Some guidelines; 9=Fully standardized" >> >>
        @@ "Resource Requirements" :>
             << << "Financial cost of simulation software licenses.",
                   "1=Very expensive; 5=Moderate; 9=Open-source/free" >>,
                << "CPU/GPU hours, memory requirements, runtime.",
                   "1=Requires HPC/very long runs; 5=Overnight; 9=Minimal footprint" >>,
                << "Expertise and time required to learn and operate the simulation method.",
                   "1=Highly specialized; 5=Graduate-level skill; 9=Intuitive/minimal training" >> >>
        @@ "Interoperability" :>
             << << "Ability to import/export data in standard formats (e.g., EC-lab, netCDF).",
                   "1=Proprietary only; 5=Partial; 9=Fully open" >>,
                << "Ability to run on various OS/HPC environments.",
                   "1=Single OS; 5=Multi-OS with tweaks; 9=Fully cross-platform" >>,
                << "Availability of APIs or scripting interfaces for customization.",
                   "1=No API; 5=Limited; 9=Extensive APIs" >> >>
        @@ "Integration Complexity" :>
             << << "Time/effort to set up geometry, boundary conditions, and meshing.",
                   "1=Days; 5=Hours; 9=Automated in minutes" >>,
                << "Quality and user-friendliness of visualization and analysis tools.",
                   "1=Complex external steps; 5=Basic tools; 9=Advanced & automated" >>,
                << "Ease of performing uncertainty quantification and parameter sweeps.",
                   "1=Manual/tedious; 5=Some scripting; 9=Fully integrated" >> >>
        @@ "Utility" :>
             << << "How beneficial are the simulation outputs for hydrogen R&D or industrial workflows?",
                   "1=Minimal impact; 5=Moderate; 9=Transformative" >>,
                << "Relevance to IEC/ISO, DoE references, HPC usage optimizations.",
                   "1=Low relevance; 5=Medium; 9=Fully aligned & strategic" >> >>
     )
  @@ "Modeling" :> (
           "Maturity" :>
             << << "How well-accepted the theoretical underpinnings are.",
                   "1=Speculative; 5=Moderately accepted; 9=Widely accepted" >>,
                << "Frequency and magnitude of model code revisions.",
                   "1=Constant major changes; 5=Occasional updates; 9=Very stable" >>,
                << "Level of parameter fitting and validation against data.",
                   "1=Poorly validated; 5=Some; 9=Thoroughly validated" >> >>
        @@ "Resource Requirements" :>
             << << "Licensing or acquisition cost of modeling tools.",
                   "1=Very expensive; 5=Moderate/partial OS; 9=Open-source/free" >>,
                << "Runtime and resource usage for solving or parameter estimation.",
                   "1=Days/run; 5=Hours/run; 9=Minutes or less" >>,
                << "Effort to keep the model updated and functional.",
                   "1=Frequent recalibration; 5=Occasional updates; 9=Low maintenance" >> >>
        @@ "Interoperability" :>
             << << "Ability to use standard data sets or link with experimental databases.",
                   "1=Proprietary only; 5=Some standard imports; 9=Fully flexible" >>,
                << "Ease of linking this model to other models.",
                   "1=Standalone; 5=Partial bridging; 9=Fully modular" >>,
                << "Quality of documentation and adherence to modeling standards.",
                   "1=Poor docs; 5=Basic; 9=Comprehensive/standardized" >> >>
        @@ "Integration Complexity" :>
             << << "Difficulty integrating the model into existing workflows.",
                   "1=Very difficult; 5=Moderate; 9=Plug-and-play" >>,
                << "Built-in parameter sensitivity and uncertainty routines.",
                   "1=None; 5=Limited; 9=Robust integrated features" >>,
                << "Ability to scale from component-level to system-level modeling.",
                   "1=Restricted; 5=Some scaling; 9=Easily scalable" >> >>
        @@ "Utility" :>
             << << "Does the model significantly improve decision-making or project KPIs?",
                   "1=Marginal; 5=Useful; 9=Highly impactful" >>,
                << "Likelihood that others in the consortium or industry adopt it once integrated.",
                   "1=Unlikely; 5=Moderate; 9=Very likely" >> >>
     )
  @@ "Characterization" :> (
           "Maturity" :>
             << << "Smallest distinguishable feature or analyte quantity.",
                   "1=Low res; 5=Moderate; 9=High-resolution" >>,
                << "Consistency of results under identical conditions.",
                   "1=Highly variable; 5=Some variability; 9=Highly reproducible" >>,
                << "Adoption of widely recognized characterization protocols.",
                   "1=None; 5=Some guidelines; 9=Industry-level standards" >> >>
        @@ "Resource Requirements" :>
             << << "Capital cost of required instrumentation.",
                   "1=>EUR 200k; 5=EUR 50k-200k; 9=<EUR 10k" >>,
                << "Cost/frequency of consumables per measurement.",
                   "1=High cost; 5=Moderate; 9=Minimal" >>,
                << "Personnel time required per sample.",
                   "1=Hours; 5=~1 hour; 9=Minutes" >> >>
        @@ "Interoperability" :>
             << << "Ability to fit into standard sample holders or test cells.",
                   "1=Custom only; 5=Adapter needed; 9=Standard holders" >>,
                << "Output in known, open data formats.",
                   "1=Proprietary only; 5=Limited; 9=Open formats" >>,
                << "Ease of applying same calibration across instruments.",
                   "1=Unique per setup; 5=Transferable w/adjustments; 9=Easily transferable" >> >>
        @@ "Integration Complexity" :>
             << << "Time required to prepare and align instrument/sample.",
                   "1=Hours; 5=Tens of minutes; 9=Minutes" >>,
                << "Difficulty converting raw data into metrics.",
                   "1=Complex multi-step; 5=Some manual steps; 9=Fully automated" >>,
                << "Lowest detectable quantity.",
                   "1=High limit; 5=Moderate; 9=Very low limit" >> >>
        @@ "Utility" :>
             << << "Degree to which characterization results drive design improvements.",
                   "1=Marginal; 5=Moderate; 9=Key enabler" >>,
                << "Adds crucial standardized data for collaborative projects or regulatory approvals.",
                   "1=Low; 5=Moderate; 9=High synergy" >> >>
     )
  @@ "Testing" :> (
           "Maturity" :>
             << << "Frequency of major changes to test procedures.",
                   "1=Evolving; 5=Mostly stable; 9=Fully standardized" >>,
                << "Consistency of results across different operating conditions.",
                   "1=Wide variance; 5=Some; 9=Robust" >>,
                << "Alignment with recognized test standards.",
                   "1=None; 5=Partial; 9=Fully aligned" >> >>
        @@ "Resource Requirements" :>
             << << "Annual loss in equipment value.",
                   "1=High; 5=Moderate; 9=Low depreciation" >>,
                << "Length of each test cycle.",
                   "1=Days; 5=Hours; 9=Minutes" >>,
                << "Energy used per test run.",
                   "1=Very high; 5=Moderate; 9=Very low" >> >>
        @@ "Interoperability" :>
             << << "Ability to use standard fixtures for different sample types.",
                   "1=Specialized; 5=Adapters needed; 9=Universal" >>,
                << "Ease of linking test control/data acquisition with lab software.",
                   "1=Manual; 5=Partial integration; 9=Fully automated" >>,
                << "Ability to produce results in standard reporting formats.",
                   "1=Proprietary; 5=Limited; 9=Fully compliant" >> >>
        @@ "Integration Complexity" :>
             << << "Time to install and calibrate the test sample.",
                   "1=Hours; 5=Tens of minutes; 9=Minutes" >>,
                << "Diversity of conditions achievable (e.g., temperature, pressure).",
                   "1=Very narrow; 5=Moderate; 9=Wide range" >>,
                << "Ability to detect/diagnose anomalies in real-time.",
                   "1=None; 5=Basic alarms; 9=Advanced diagnostics" >> >>
        @@ "Utility" :>
             << << "Ensures direct feedback on device or material performance for project goals.",
                   "1=Low; 5=Medium; 9=High synergy" >>,
                << "Usefulness of test data for scaling to pilot or commercial applications.",
                   "1=Marginal; 5=Moderate; 9=Essential" >> >>
     )
  @@ "Assessment" :> (
           "Maturity" :>
             << << "Level of standardization and consensus.",
                   "1=None; 5=Some guidance; 9=Fully standardized" >>,
                << "Clarity and standardization of data quality metrics.",
                   "1=Poorly defined; 5=Some guidelines; 9=Well-defined" >>,
                << "Frequency of major methodological changes.",
                   "1=Frequent; 5=Occasional; 9=Very stable" >> >>
        @@ "Resource Requirements" :>
             << << "Cost of analysis tools and databases.",
                   "1=Very expensive; 5=Moderate; 9=Free/open-source" >>,
                << "Effort/expense to gather input data.",
                   "1=Very difficult; 5=Moderate; 9=Easily accessible" >>,
                << "Complexity of training required.",
                   "1=Specialized experts; 5=Skilled professionals; 9=Minimal training" >> >>
        @@ "Interoperability" :>
             << << "Integration with other sustainability/economic frameworks.",
                   "1=Very specialized; 5=Limited; 9=Broad compatibility" >>,
                << "Ease of importing standard LCI or other datasets.",
                   "1=None; 5=Some parsing; 9=Direct compatibility" >>,
                << "Compliance with recognized reporting frameworks (e.g., ISO).",
                   "1=Proprietary; 5=Partial; 9=Fully compliant" >> >>
        @@ "Integration Complexity" :>
             << << "Speed from input to final assessment.",
                   "1=Weeks; 5=Days; 9=Hours or less" >>,
                << "Built-in scenario/uncertainty tools.",
                   "1=None; 5=Manual; 9=Fully integrated" >>,
                << "Suitability from component-level to full supply chain.",
                   "1=Component-only; 5=Some scaling; 9=Easily scalable" >> >>
        @@ "Utility" :>
             << << "Does the assessment clearly guide strategic decisions or design changes?",
                   "1=Minimal; 5=Some; 9=High impact" >>,
                << "Helps meet regulations, certifications, or official guidelines.",
                   "1=Little relevance; 5=Useful; 9=Essential" >> >>
     )

\* ------------------------------------------------------ section keys

\* A taxonomy selection is the tuple of the selectbox values of a step:
\* << >> (Introduction, Final Comments), << chosen_cat >>, << attr_choice >>,
\* << cat_choice, attr_choice, child_feat_choice >>.

\* Mutant: the General choice is stored under the selectbox's own word.
section_label_categories_Raw(chosen_cat) ==
  chosen_cat

\* step_method_categories: section_label
section_label_categories(chosen_cat) ==
  IF chosen_cat # "General" THEN chosen_cat ELSE "GeneralCategories"

\* step_parent_attributes: section_label
section_label_attributes(attr_choice) ==
  IF attr_choice # "General" THEN attr_choice ELSE "GeneralAttributes"

\* step_child_attributes: child_attrs
child_attrs(cat_choice, attr_choice) ==
  IF cat_choice \in DOMAIN CHILD_ATTRIBUTES_DICT
       /\ attr_choice \in DOMAIN CHILD_ATTRIBUTES_DICT[cat_choice]
    THEN CHILD_ATTRIBUTES_DICT[cat_choice][attr_choice]
    ELSE << >>

\* step_child_attributes: the values child_feat_choice can take
child_feat_choices(cat_choice, attr_choice) ==
  IF child_attrs(cat_choice, attr_choice) = << >>
    THEN { "General" }
    ELSE { "General" } \cup Range(child_attrs(cat_choice, attr_choice))

\* Mutant: the key leaves out the method category.
section_label_child_NoCategory(cat_choice, attr_choice, child_feat_choice) ==
  attr_choice \o " | " \o child_feat_choice

\* Mutant: the parent attribute and the category change places.
section_label_child_Swapped(cat_choice, attr_choice, child_feat_choice) ==
  attr_choice \o " | " \o cat_choice \o " | " \o child_feat_choice

\* step_child_attributes: section_label
section_label_child(cat_choice, attr_choice, child_feat_choice) ==
  cat_choice \o " | " \o attr_choice \o " | " \o child_feat_choice

\* The selections a step's selectboxes offer.
Selections(step_name) ==
  CASE step_name = "Method Categories" ->
         { << c >> : c \in { "General" } \cup Range(METHOD_CATEGORIES) }
    [] step_name = "Parent Attributes" ->
         { << a >> : a \in { "General" } \cup Range(PARENT_ATTRIBUTES) }
    [] step_name = "Child Attributes" ->
         UNION { { << c, a, f >> : f \in child_feat_choices(c, a) } :
                   c \in Range(METHOD_CATEGORIES), a \in Range(PARENT_ATTRIBUTES) }
    [] OTHER -> { << >> }

\* The section_label a step function passes to collect_feedback and get_feedback.
section_label(step_name, sel) ==
  CASE step_name = "Introduction" -> "GeneralIntro"
    [] step_name = "Method Categories" -> section_label_categories(sel[1])
    [] step_name = "Parent Attributes" -> section_label_attributes(sel[1])
    [] step_name = "Child Attributes" -> section_label_child(sel[1], sel[2], sel[3])
    [] step_name = "Final Comments" -> "OverallFinal"
    [] OTHER -> ""

\* step_child_attributes: selected_child, the position in child_attrs of the
\* first tuple named child_feat_choice, 0 for None.
selected_child(cat_choice, attr_choice, child_feat_choice) ==
  LET at == { k \in DOMAIN child_attrs(cat_choice, attr_choice) :
                child_attrs(cat_choice, attr_choice)[k] = child_feat_choice }
  IN  IF at = { } THEN 0 ELSE CHOOSE k \in at : \A j \in at : k <= j

\* Mutant: "General" shows the text of the first child attribute.
child_text_FirstForGeneral(cat_choice, attr_choice, child_feat_choice, part) ==
  IF child_attrs(cat_choice, attr_choice) = << >> THEN ""
  ELSE IF selected_child(cat_choice, attr_choice, child_feat_choice) # 0
    THEN CHILD_ATTRIBUTES_TEXT[cat_choice][attr_choice][
           selected_child(cat_choice, attr_choice, child_feat_choice)][part]
  ELSE CHILD_ATTRIBUTES_TEXT[cat_choice][attr_choice][1][part]

\* step_child_attributes: child_description (part 1) and child_scoring
\* (part 2) for the choice made.
child_text(cat_choice, attr_choice, child_feat_choice, part) ==
  IF child_attrs(cat_choice, attr_choice) = << >> THEN ""
  ELSE IF child_feat_choice # "General"
    THEN IF selected_child(cat_choice, attr_choice, child_feat_choice) # 0
           THEN CHILD_ATTRIBUTES_TEXT[cat_choice][attr_choice][
                  selected_child(cat_choice, attr_choice, child_feat_choice)][part]
           ELSE ""
  ELSE ""

child_description(cat_choice, attr_choice, child_feat_choice) ==
  child_text(cat_choice, attr_choice, child_feat_choice, 1)

child_scoring(cat_choice, attr_choice, child_feat_choice) ==
  child_text(cat_choice, attr_choice, child_feat_choice, 2)

\* ------------------------------------------------------------------ state

VARIABLES
  feedback,         \* the rows of table feedback (irl_feedback.db)
  sqlite_sequence,  \* the AUTOINCREMENT high-water mark of table feedback
  clock,            \* CURRENT_TIMESTAMP, in whole seconds
  issued,           \* the tokens uuid.uuid4() has returned so far
  session_state,    \* st.session_state of every browser session
  widgets,          \* the selectbox values of the step a session shows
  pc,               \* where a session's script run (or connection) stands
  run,              \* the click a run serves and what it fetched; an open transaction
  page,             \* what a session's last finished script run rendered
  ret,              \* the last direct call of a database function and its result
  ksel,             \* the two selections handed to the key derivation
  kkey              \* the keys derived from them

vars ==
  << feedback, sqlite_sequence, clock, issued, session_state, widgets, pc,
     run, page, ret, ksel, kkey >>

storeVars == << feedback, sqlite_sequence, clock >>
sessionVars == << issued, session_state, widgets, pc, run, page >>
keyVars == << ksel, kkey >>

\* ------------------------------------------------------ database functions

\* Python's None, for get_feedback's default section.
None == "<None>"

\* Python truthiness of an optional string.
Truthy(s) == s # None /\ s # ""

\* Mutant: the text is inserted as typed.
NewRow_Untrimmed(user_id, user_name, step, section, text) ==
  [ id         |-> sqlite_sequence + 1,
    user_id    |-> user_id,
    user_name  |-> user_name,
    step       |-> step,
    section    |-> section,
    feedback   |-> text,
    created_at |-> clock ]

\* Mutant: the id column without AUTOINCREMENT, one past the largest stored id.
NewRow_MaxRowid(user_id, user_name, step, section, text) ==
  [ id         |-> 1 + Cardinality({ i \in 1..sqlite_sequence :
                                       \E row \in feedback : row.id >= i }),
    user_id    |-> user_id,
    user_name  |-> user_name,
    step       |-> step,
    section    |-> section,
    feedback   |-> strip(text),
    created_at |-> clock ]

\* add_feedback: the row INSERT creates; id from AUTOINCREMENT, created_at
\* from DEFAULT CURRENT_TIMESTAMP.
NewRow(user_id, user_name, step, section, text) ==
  [ id         |-> sqlite_sequence + 1,
    user_id    |-> user_id,
    user_name  |-> user_name,
    step       |-> step,
    section    |-> section,
    feedback   |-> strip(text),
    created_at |-> clock ]

\* Mutant: a user's new comment replaces the one the user has on the section.
add_feedback_Replacing(user_id, user_name, step, section, text) ==
  /\ feedback' =
       { row \in feedback :
           ~(row.user_id = user_id /\ row.step = step /\ row.section = section) }
         \cup { NewRow(user_id, user_name, step, section, text) }
  /\ sqlite_sequence' = sqlite_sequence + 1
  /\ UNCHANGED clock

\* add_feedback(user_id, user_name, step, section, feedback)
add_feedback(user_id, user_name, step, section, text) ==
  /\ feedback' = feedback \cup { NewRow(user_id, user_name, step, section, text) }
  /\ sqlite_sequence' = sqlite_sequence + 1
  /\ UNCHANGED clock

\* Mutant: the section filter is dropped from the query.
GetWhere_StepOnly(row, step, section) ==
  row.step = step

\* get_feedback: the WHERE clause of the query the section selects.
GetWhere(row, step, section) ==
  IF Truthy(section)
    THEN row.step = step /\ row.section = section
    ELSE row.step = step

\* The sequences that list every element of S once.
Listings(S) ==
  { q \in [ 1..Cardinality(S) -> S ] :
      \A i, j \in 1..Cardinality(S) : i # j => q[i] # q[j] }

\* get_feedback: ORDER BY created_at ASC. SQL leaves the order of rows with
\* equal sort keys open, so every listing sorted by created_at is a result.
OrderByCreatedAt(S) ==
  { q \in Listings(S) :
      \A i, j \in 1..Len(q) : i < j => q[i].created_at <= q[j].created_at }

\* get_feedback: the dictionary built from a fetched row.
Entry(row) ==
  [ row EXCEPT !.user_name = IF row.user_name # << >> THEN row.user_name
                             ELSE Anonymous ]

\* get_feedback(step, section): the lists the call can return.
get_feedback(step, section) ==
  { [ i \in 1..Len(rows) |-> Entry(rows[i]) ] :
      rows \in OrderByCreatedAt({ row \in feedback : GetWhere(row, step, section) }) }

\* Mutant: the owner is not part of the condition.
DeleteWhere_AnyUser(row, record_id, user_id) ==
  row.id = record_id

\* delete_feedback: the WHERE clause of the DELETE.
DeleteWhere(row, record_id, user_id) ==
  row.id = record_id /\ row.user_id = user_id

\* delete_feedback: c.rowcount
rowcount(record_id, user_id) ==
  Cardinality({ row \in feedback : DeleteWhere(row, record_id, user_id) })

\* Mutant: a DELETE that ran is reported as a deletion.
delete_result_Always(count) ==
  count >= 0

\* delete_feedback: the value returned.
delete_result(count) ==
  count > 0

\* delete_feedback(record_id, user_id), returning result
delete_feedback(record_id, user_id, result) ==
  /\ feedback' = { row \in feedback : ~DeleteWhere(row, record_id, user_id) }
  /\ result = delete_result(rowcount(record_id, user_id))
  /\ UNCHANGED << sqlite_sequence, clock >>

\* The wall clock advances.
Tick ==
  /\ clock < MaxClock
  /\ clock' = clock + 1
  /\ UNCHANGED << feedback, sqlite_sequence >>
  /\ UNCHANGED << sessionVars, ret, keyVars >>

\* --------------------------------------------------------------- sessions

\* The browser sessions of a run of the model.
Sessions == { "s1", "s2" }

\* The values uuid.uuid4() draws from.
UUIDS == { "u1", "u2" }

\* What is typed into the passcode field.
Passcodes == { PASSCODE, "decode" }

\* What is typed into the name field of the wizard runs.
NameInputs == { << >>, << " ", "P", "\n" >> }

\* What is typed into the feedback text area.
BodyInputs == { << >>, << " ", "\n" >>, << "o", "k" >>, << "\t", "o", "k", " " >> }

\* The selectbox values a session of the model picks, the defaults among them.
Choices(step_name) ==
  CASE step_name = "Method Categories" -> { << "General" >>, << "Simulations" >> }
    [] step_name = "Parent Attributes" -> { << "General" >> }
    [] step_name = "Child Attributes" ->
         { << "Simulations", "Maturity", "General" >>,
           << "Testing", "Integration Complexity", "Setup Time" >> }
    [] OTHER -> { << >> }

Max(a, b) == IF a >= b THEN a ELSE b
Min(a, b) == IF a <= b THEN a ELSE b

\* main: the session state a first script run sets up.
InitSessionState ==
  [ logged_in    |-> FALSE,
    user_id      |-> "",
    user_name    |-> << >>,
    current_step |-> 0 ]

\* login_page as rendered.
LoginView(notice) == [ view |-> "login", notice |-> notice ]

\* wizard_navbar and a step function as rendered: served is the click the
\* script run served, nav the index the progress line and the buttons'
\* disabled flags were computed from, step the index whose content was
\* rendered.
WizardView(served, nav, step, section, entries, notice) ==
  [ view |-> "wizard", served |-> served, nav |-> nav, step |-> step,
    section |-> section, entries |-> entries, notice |-> notice ]

\* Mutant: a blank name is stored as it is trimmed, without the default.
login_user_name_NoDefault(user_name) ==
  strip(user_name)

\* login_page: the name stored at login.
login_user_name(user_name) ==
  IF strip(user_name) # << >> THEN strip(user_name) ELSE Anonymous

\* Mutant: the user id is made from the name typed, not drawn.
login_page_NamedId(s, passcode, user_name, token) ==
  /\ IF passcode = PASSCODE
       THEN /\ session_state' =
                 [ session_state EXCEPT ![s] =
                     [ logged_in    |-> TRUE,
                       current_step |-> 0,
                       user_id      |-> IF strip(user_name) # << >> THEN "u2" ELSE "u1",
                       user_name    |-> login_user_name(user_name) ] ]
            /\ issued' = issued \cup { token }
            /\ page' = [ page EXCEPT ![s] = LoginView("") ]
       ELSE /\ page' = [ page EXCEPT ![s] = LoginView("Incorrect passcode") ]
            /\ UNCHANGED << session_state, issued >>
  /\ UNCHANGED << widgets, pc, run >>

\* login_page: the Login button was clicked.
login_page(s, passcode, user_name, token) ==
  /\ IF passcode = PASSCODE
       THEN /\ session_state' =
                 [ session_state EXCEPT ![s] =
                     [ logged_in    |-> TRUE,
                       current_step |-> 0,
                       user_id      |-> token,
                       user_name    |-> login_user_name(user_name) ] ]
            /\ issued' = issued \cup { token }
            /\ page' = [ page EXCEPT ![s] = LoginView("") ]
       ELSE /\ page' = [ page EXCEPT ![s] = LoginView("Incorrect passcode") ]
            /\ UNCHANGED << session_state, issued >>
  /\ UNCHANGED << widgets, pc, run >>

\* wizard_navbar: total_steps
total_steps == Len(WIZARD_STEPS)

\* Mutant: Previous without the clamp at 0.
previous_Unclamped(current_step) == current_step - 1

\* Mutant: Final Comments, once reached, is not left.
previous_LockedAtFinal(current_step) ==
  IF current_step = total_steps - 1 THEN current_step ELSE Max(current_step - 1, 0)

\* wizard_navbar: the Previous button's handler.
previous(current_step) == Max(current_step - 1, 0)

\* Mutant: Next moves two steps on.
next_Skipping(current_step) == Min(current_step + 2, total_steps - 1)

\* wizard_navbar: the Next button's handler.
next(current_step) == Min(current_step + 1, total_steps - 1)

\* wizard_navbar: current_step after the navigation buttons were served.
navigate(current_step, click) ==
  CASE click = "Previous" -> previous(current_step)
    [] click = "Next" -> next(current_step)
    [] OTHER -> current_step

\* wizard_navbar: disabled= of the two buttons.
previous_disabled(nav) == nav = 0
next_disabled(nav) == nav = total_steps - 1

\* A selectbox shows its first option until a session picks another.
DefaultSelection(step_name) ==
  CASE step_name = "Method Categories" -> << "General" >>
    [] step_name = "Parent Attributes" -> << "General" >>
    [] step_name = "Child Attributes" ->
         << METHOD_CATEGORIES[1], PARENT_ATTRIBUTES[1], "General" >>
    [] OTHER -> << >>

\* ------------------------------------------------------------ script runs

\* A script run that serves no click in progress.
NoRun == [ kind |-> "none" ]

\* The last direct database call, before any was made.
NoCall == [ op |-> "none" ]

\* The selections handed to the key derivation, when none are.
NoKeys == << "", "" >>

\* WIZARD_STEPS[current_step], with Python's indexing: a negative index counts
\* from the end, an index out of range raises IndexError.
step_name_of(current_step) ==
  IF 0 <= current_step /\ current_step < Len(WIZARD_STEPS)
    THEN WIZARD_STEPS[current_step + 1]
  ELSE IF -Len(WIZARD_STEPS) <= current_step /\ current_step < 0
    THEN WIZARD_STEPS[Len(WIZARD_STEPS) + current_step + 1]
  ELSE "IndexError"

\* The selectbox values a script run of session s reads: the picked ones, the
\* ones the widgets hold when the same step was rendered before, the defaults
\* when the widgets are new.
selection(s, current_step, picked) ==
  IF picked # None THEN picked
  ELSE IF page[s].view = "wizard" /\ page[s].step = current_step THEN widgets[s]
  ELSE DefaultSelection(step_name_of(current_step))

\* st.session_state of s after wizard_navbar served the click.
after_navbar(s, click) ==
  [ session_state[s] EXCEPT !.current_step = navigate(@, click) ]

\* Mutant: the text is compared untrimmed.
collect_feedback_accepts_Untrimmed(text) ==
  ~(text = << >>)

\* collect_feedback: the test that lets a submitted text through to
\* add_feedback.
collect_feedback_accepts(text) ==
  ~(strip(text) = << >>)

\* Mutant: current_step kept in one place for all sessions, as a module
\* global would be.
WizardRun_Shared(s, click, picked, notice) ==
  LET nav == session_state[s].current_step
      state == after_navbar(s, click)
      step_name == step_name_of(state.current_step)
      sel == selection(s, state.current_step, picked)
      section == section_label(step_name, sel)
  IN  /\ session_state' =
           [ t \in Sessions |->
               [ session_state[t] EXCEPT !.current_step = state.current_step ] ]
      /\ widgets' = [ widgets EXCEPT ![s] = sel ]
      /\ \E entries \in get_feedback(step_name, section) :
           page' = [ page EXCEPT ![s] =
                       WizardView(click, nav, state.current_step, section, entries,
                                  notice) ]
      /\ UNCHANGED << storeVars, issued, pc, run, ret, keyVars >>

\* main for a logged-in session, when the click it serves writes nothing to
\* the table: wizard_navbar, then the step function with collect_feedback,
\* get_feedback and display_feedback_entries.
WizardRun(s, click, picked, notice) ==
  LET nav == session_state[s].current_step
      state == after_navbar(s, click)
      step_name == step_name_of(state.current_step)
      sel == selection(s, state.current_step, picked)
      section == section_label(step_name, sel)
  IN  /\ session_state' = [ session_state EXCEPT ![s] = state ]
      /\ widgets' = [ widgets EXCEPT ![s] = sel ]
      /\ \E entries \in get_feedback(step_name, section) :
           page' = [ page EXCEPT ![s] =
                       WizardView(click, nav, state.current_step, section, entries,
                                  notice) ]
      /\ UNCHANGED << storeVars, issued, pc, run, ret, keyVars >>

\* Mutant: the login form is served to a session that is logged in.
LoginWith_LoggedIn(s, passcode, user_name, token) ==
  /\ pc[s] = "idle"
  /\ token \notin issued
  /\ login_page(s, passcode, user_name, token)
  /\ UNCHANGED << storeVars, ret, keyVars >>

\* A click on Login, with the passcode and the name typed and the token
\* uuid.uuid4() returns; the page it is clicked on shows the button.
LoginWith(s, passcode, user_name, token) ==
  /\ pc[s] = "idle"
  /\ page[s].view = "login"
  /\ ~session_state[s].logged_in
  /\ token \notin issued
  /\ login_page(s, passcode, user_name, token)
  /\ UNCHANGED << storeVars, ret, keyVars >>

\* A click on Login.
Login(s) ==
  \E passcode \in Passcodes, user_name \in NameInputs, token \in UUIDS :
    LoginWith(s, passcode, user_name, token)

\* The script runs again with no button clicked (the text area was edited, a
\* button no longer on the page was clicked, the page was reloaded).
Rerun(s) ==
  /\ pc[s] = "idle"
  /\ IF session_state[s].logged_in
       THEN WizardRun(s, "rerun", None, "")
       ELSE /\ page' = [ page EXCEPT ![s] = LoginView("") ]
            /\ UNCHANGED << storeVars, issued, session_state, widgets, pc, run,
                            ret, keyVars >>

\* A click on Previous, which the page shows enabled.
Previous(s) ==
  /\ pc[s] = "idle"
  /\ page[s].view = "wizard"
  /\ ~previous_disabled(page[s].nav)
  /\ WizardRun(s, "Previous", None, "")

\* A click on Next, which the page shows enabled.
NextStep(s) ==
  /\ pc[s] = "idle"
  /\ page[s].view = "wizard"
  /\ ~next_disabled(page[s].nav)
  /\ WizardRun(s, "Next", None, "")

\* Another option of a selectbox of the shown step is picked.
Select(s) ==
  /\ pc[s] = "idle"
  /\ page[s].view = "wizard"
  /\ \E picked \in Choices(step_name_of(page[s].step)) \ { widgets[s] } :
       WizardRun(s, "select", picked, "")

\* collect_feedback: Submit Feedback clicked with a blank text.
SubmitBlank(s) ==
  /\ pc[s] = "idle"
  /\ page[s].view = "wizard"
  /\ \E text \in BodyInputs :
       /\ ~collect_feedback_accepts(text)
       /\ WizardRun(s, "submit", None, "Please enter some feedback")

\* Mutant: the feedback form is served to a session that has not logged in.
Submit_BeforeLogin(s) ==
  /\ pc[s] = "idle"
  /\ sqlite_sequence < MaxSubmits
  /\ \E text \in BodyInputs :
       /\ collect_feedback_accepts(text)
       /\ add_feedback(session_state[s].user_id, session_state[s].user_name,
                       step_name_of(session_state[s].current_step),
                       section_label(step_name_of(session_state[s].current_step),
                                     widgets[s]),
                       text)
  /\ pc' = [ pc EXCEPT ![s] = "list" ]
  /\ run' = [ run EXCEPT ![s] =
                [ kind |-> "submit", nav |-> session_state[s].current_step,
                  notice |-> "Your feedback has been recorded" ] ]
  /\ UNCHANGED << issued, session_state, widgets, page, ret, keyVars >>

\* collect_feedback: Submit Feedback clicked with a text; the script run goes
\* on to get_feedback in ListFeedback.
Submit(s) ==
  /\ pc[s] = "idle"
  /\ page[s].view = "wizard"
  /\ sqlite_sequence < MaxSubmits
  /\ \E text \in BodyInputs :
       /\ collect_feedback_accepts(text)
       /\ add_feedback(session_state[s].user_id, session_state[s].user_name,
                       step_name_of(session_state[s].current_step),
                       section_label(step_name_of(session_state[s].current_step),
                                     widgets[s]),
                       text)
  /\ pc' = [ pc EXCEPT ![s] = "list" ]
  /\ run' = [ run EXCEPT ![s] =
                [ kind |-> "submit", nav |-> session_state[s].current_step,
                  notice |-> "Your feedback has been recorded" ] ]
  /\ UNCHANGED << issued, session_state, widgets, page, ret, keyVars >>

\* The step function after collect_feedback stored a record: get_feedback and
\* display_feedback_entries.
ListFeedback(s) ==
  /\ pc[s] = "list"
  /\ LET current_step == session_state[s].current_step
         section == section_label(step_name_of(current_step), widgets[s])
     IN  \E entries \in get_feedback(step_name_of(current_step), section) :
           page' = [ page EXCEPT ![s] =
                       WizardView("submit", run[s].nav, current_step, section,
                                  entries, run[s].notice) ]
  /\ pc' = [ pc EXCEPT ![s] = "idle" ]
  /\ run' = [ run EXCEPT ![s] = NoRun ]
  /\ UNCHANGED << storeVars, issued, session_state, widgets, ret, keyVars >>

\* Mutant: every entry is shown with a Delete button.
delete_buttons_All(entries, user_id) ==
  { entries[i].id : i \in DOMAIN entries }

\* display_feedback_entries: the ids whose Delete button the entries show to
\* the session.
delete_buttons(entries, user_id) ==
  { entries[i].id : i \in { j \in DOMAIN entries : entries[j].user_id = user_id } }

\* A click on a Delete button of the page: the script run renders the
\* navigation bar and the step down to get_feedback.
DeleteClick(s) ==
  /\ pc[s] = "idle"
  /\ page[s].view = "wizard"
  /\ \E id \in delete_buttons(page[s].entries, session_state[s].user_id) :
     \E entries \in get_feedback(step_name_of(session_state[s].current_step),
                                 page[s].section) :
       run' = [ run EXCEPT ![s] =
                  [ kind |-> "delete", nav |-> session_state[s].current_step,
                    entries |-> entries, id |-> id ] ]
  /\ pc' = [ pc EXCEPT ![s] = "display" ]
  /\ UNCHANGED << storeVars, issued, session_state, widgets, page, ret, keyVars >>

\* display_feedback_entries: the clicked Delete button, when the fetched
\* entries still show it, calls delete_feedback.
DeleteServe(s) ==
  /\ pc[s] = "display"
  /\ LET state == session_state[s]
         shown == run[s].id \in delete_buttons(run[s].entries, state.user_id)
     IN  \E success \in BOOLEAN :
           /\ IF shown
                THEN delete_feedback(run[s].id, state.user_id, success)
                ELSE success = FALSE /\ UNCHANGED storeVars
           /\ page' = [ page EXCEPT ![s] =
                          WizardView("delete", run[s].nav, state.current_step,
                                     page[s].section, run[s].entries,
                                     IF success THEN "Your feedback has been deleted"
                                     ELSE IF shown THEN "Failed to delete feedback"
                                     ELSE "") ]
  /\ pc' = [ pc EXCEPT ![s] = "idle" ]
  /\ run' = [ run EXCEPT ![s] = NoRun ]
  /\ UNCHANGED << issued, session_state, widgets, ret, keyVars >>

\* An empty table, and sessions whose first script run showed the login page.
InitStore ==
  /\ feedback = { }
  /\ sqlite_sequence = 0
  /\ clock = 0

InitSessions ==
  /\ issued = { }
  /\ session_state = [ s \in Sessions |-> InitSessionState ]
  /\ widgets = [ s \in Sessions |-> << >> ]
  /\ pc = [ s \in Sessions |-> "idle" ]
  /\ run = [ s \in Sessions |-> NoRun ]
  /\ page = [ s \in Sessions |-> LoginView("") ]

Init ==
  /\ InitStore
  /\ InitSessions
  /\ ret = NoCall
  /\ ksel = NoKeys
  /\ kkey = NoKeys

\* The wizard: any number of sessions over one table.
Next ==
  \/ \E s \in Sessions : Login(s)
  \/ \E s \in Sessions : Rerun(s)
  \/ \E s \in Sessions : Previous(s)
  \/ \E s \in Sessions : NextStep(s)
  \/ \E s \in Sessions : Select(s)
  \/ \E s \in Sessions : SubmitBlank(s)
  \/ \E s \in Sessions : Submit(s)
  \/ \E s \in Sessions : ListFeedback(s)
  \/ \E s \in Sessions : DeleteClick(s)
  \/ \E s \in Sessions : DeleteServe(s)
  \/ Tick

Spec == Init /\ [][Next]_vars

\* ------------------------------------------------- the wizard without feedback

\* Sessions that log in, navigate and pick, and never submit or delete.
NextWizard ==
  \/ \E s \in Sessions : Login(s)
  \/ \E s \in Sessions : Rerun(s)
  \/ \E s \in Sessions : Previous(s)
  \/ \E s \in Sessions : NextStep(s)
  \/ \E s \in Sessions : Select(s)

SpecWizard == Init /\ [][NextWizard]_vars

\* ---------------------------------------------------------- the login form

\* The printable and the blank characters typed into the name field.
NameChars == { " ", "\n", "P" }

\* The texts of at most n characters.
Texts(n) == UNION { [ 1..k -> NameChars ] : k \in 0..n }

\* A click on Login with any short text in the name field.
LoginTyped(s) ==
  \E passcode \in Passcodes, user_name \in Texts(MaxLen), token \in UUIDS :
    LoginWith(s, passcode, user_name, token)

NextLogin ==
  \/ \E s \in Sessions : LoginTyped(s)
  \/ \E s \in Sessions : Rerun(s)

SpecLogin == Init /\ [][NextLogin]_vars

\* ------------------------------------------- the database functions, directly

\* The identities that call: a token and the name its session logged in with.
Callers ==
  { [ user_id |-> "u1", user_name |-> login_user_name(<< >>) ],
    [ user_id |-> "u2", user_name |-> login_user_name(<< " ", "P", "\n" >>) ] }

\* The (step, section) pairs the calls name.
StorePartitions ==
  UNION { { << step_name, section_label(step_name, sel) >> : sel \in Choices(step_name) } :
            step_name \in { "Introduction", "Method Categories" } }

\* collect_feedback with Submit Feedback clicked, for a caller's identity.
CallSubmit(caller, partition, text) ==
  /\ IF collect_feedback_accepts(text)
       THEN /\ sqlite_sequence < MaxId
            /\ add_feedback(caller.user_id, caller.user_name, partition[1],
                            partition[2], text)
            /\ ret' = [ op |-> "submit", text |-> text, id |-> sqlite_sequence' ]
       ELSE /\ UNCHANGED storeVars
            /\ ret' = [ op |-> "submit", text |-> text, id |-> 0 ]
  /\ UNCHANGED << sessionVars, keyVars >>

\* get_feedback(step, section) and get_feedback(step)
CallGet(step_name, section) ==
  /\ \E result \in get_feedback(step_name, section) :
       ret' = [ op |-> "get", step |-> step_name, section |-> section,
                result |-> result ]
  /\ UNCHANGED << storeVars, sessionVars, keyVars >>

\* delete_feedback(record_id, user_id)
CallDelete(record_id, user_id) ==
  /\ \E result \in BOOLEAN :
       /\ delete_feedback(record_id, user_id, result)
       /\ ret' = [ op |-> "delete", id |-> record_id, user_id |-> user_id,
                   result |-> result ]
  /\ UNCHANGED << sessionVars, keyVars >>

\* A caller submits.
Submitting ==
  \E caller \in Callers, partition \in StorePartitions, text \in BodyInputs :
    CallSubmit(caller, partition, text)

\* A caller lists a step's section, or a step with the section left out or
\* empty.
Getting ==
  \E partition \in StorePartitions :
    \E section \in { partition[2], "", None } :
      CallGet(partition[1], section)

\* A caller asks to delete a record, its own or not, stored or not.
Deleting ==
  \E record_id \in 1..MaxId, caller \in Callers :
    CallDelete(record_id, caller.user_id)

NextStore ==
  \/ Submitting
  \/ Getting
  \/ Deleting
  \/ Tick

SpecStore == Init /\ [][NextStore]_vars

\* ------------------------------------------------------- the key derivation

\* Every selection the five steps offer, with its step.
AllSelections ==
  UNION { { [ step |-> step_name, sel |-> sel ] : sel \in Selections(step_name) } :
            step_name \in Range(WIZARD_STEPS) }

\* No key derived yet.
NotDerived == ""

\* Two selections, of any steps, whose keys are not derived yet.
InitKey ==
  /\ InitStore
  /\ InitSessions
  /\ ret = NoCall
  /\ ksel \in AllSelections \X AllSelections
  /\ kkey = << NotDerived, NotDerived >>

\* A step function derives the section_label of the i-th selection.
Derive(i) ==
  /\ kkey[i] = NotDerived
  /\ kkey' = [ kkey EXCEPT ![i] = section_label(ksel[i].step, ksel[i].sel) ]
  /\ UNCHANGED << storeVars, sessionVars, ret, ksel >>

NextKey == \E i \in { 1, 2 } : Derive(i)

SpecKey == InitKey /\ [][NextKey]_vars

\* ------------------------------ a named partner and an anonymous one, directly

\* The name and the feedback of the partner who comments on the introduction.
APartner == << "A", ".", " ", "P", "a", "r", "t", "n", "e", "r" >>
LooksGood == << "L", "o", "o", "k", "s", " ", "g", "o", "o", "d" >>

\* The identities that call: the partner's name typed with a blank before it,
\* the other name left empty.
ScenarioCallers ==
  { [ user_id |-> "u1", user_name |-> login_user_name(<< " " >> \o APartner) ],
    [ user_id |-> "u2", user_name |-> login_user_name(<< >>) ] }

\* What the callers type into the feedback text area.
ScenarioBodies ==
  { LooksGood, << " " >> \o LooksGood \o << "\n" >>, << "\t" >> }

\* The (step, section) pairs of the two steps without a selectbox.
ScenarioPartitions ==
  { << step_name, section_label(step_name, << >>) >> :
      step_name \in { "Introduction", "Final Comments" } }

ScenarioSubmitting ==
  \E caller \in ScenarioCallers, partition \in ScenarioPartitions,
     text \in ScenarioBodies :
    CallSubmit(caller, partition, text)

ScenarioGetting ==
  \E partition \in ScenarioPartitions : CallGet(partition[1], partition[2])

ScenarioDeleting ==
  \E record_id \in 1..MaxId, caller \in ScenarioCallers :
    CallDelete(record_id, caller.user_id)

NextScenario ==
  \/ ScenarioSubmitting
  \/ ScenarioGetting
  \/ ScenarioDeleting
  \/ Tick

SpecScenario == Init /\ [][NextScenario]_vars

\* --------------------------- the database calls, statement by statement

\* Here a session stands for a connection: pc is "insert" or "delete" between
\* c.execute and conn.commit, run holds the open transaction.

\* Mutant: a database without a write lock.
write_lock_free_Always(s) == TRUE

\* sqlite3: a connection that has executed an INSERT or a DELETE holds the
\* write lock of the database file until it commits; the statement of
\* another connection waits for it.
write_lock_free(s) ==
  \A t \in Sessions \ { s } : pc[t] \notin { "insert", "delete" }

\* add_feedback: sqlite3.connect and c.execute of the INSERT.
InsertExecute(s, caller, partition, text) ==
  /\ pc[s] = "idle"
  /\ write_lock_free(s)
  /\ sqlite_sequence < MaxId
  /\ pc' = [ pc EXCEPT ![s] = "insert" ]
  /\ run' = [ run EXCEPT ![s] =
                [ kind |-> "insert", text |-> text,
                  row |-> NewRow(caller.user_id, caller.user_name, partition[1],
                                 partition[2], text) ] ]
  /\ UNCHANGED << storeVars, issued, session_state, widgets, page, ret, keyVars >>

\* add_feedback: conn.commit and conn.close.
InsertCommit(s) ==
  /\ pc[s] = "insert"
  /\ feedback' = feedback \cup { run[s].row }
  /\ sqlite_sequence' = run[s].row.id
  /\ ret' = [ op |-> "submit", text |-> run[s].text, id |-> run[s].row.id ]
  /\ pc' = [ pc EXCEPT ![s] = "idle" ]
  /\ run' = [ run EXCEPT ![s] = NoRun ]
  /\ UNCHANGED << clock, issued, session_state, widgets, page, keyVars >>

\* delete_feedback: sqlite3.connect and c.execute of the DELETE.
DeleteExecute(s, record_id, user_id) ==
  /\ pc[s] = "idle"
  /\ write_lock_free(s)
  /\ pc' = [ pc EXCEPT ![s] = "delete" ]
  /\ run' = [ run EXCEPT ![s] =
                [ kind |-> "delete", id |-> record_id, user_id |-> user_id,
                  rowcount |-> rowcount(record_id, user_id) ] ]
  /\ UNCHANGED << storeVars, issued, session_state, widgets, page, ret, keyVars >>

\* delete_feedback: conn.commit, c.rowcount, conn.close and the return.
DeleteCommit(s) ==
  /\ pc[s] = "delete"
  /\ feedback' = { row \in feedback : ~DeleteWhere(row, run[s].id, run[s].user_id) }
  /\ ret' = [ op |-> "delete", id |-> run[s].id, user_id |-> run[s].user_id,
              result |-> delete_result(run[s].rowcount) ]
  /\ pc' = [ pc EXCEPT ![s] = "idle" ]
  /\ run' = [ run EXCEPT ![s] = NoRun ]
  /\ UNCHANGED << sqlite_sequence, clock, issued, session_state, widgets, page,
                  keyVars >>

\* A connection starts an add for a caller, with a text collect_feedback lets
\* through.
InsertExecuting ==
  \E s \in Sessions, caller \in Callers, partition \in StorePartitions,
     text \in { t \in BodyInputs : collect_feedback_accepts(t) } :
    InsertExecute(s, caller, partition, text)

InsertCommitting == \E s \in Sessions : InsertCommit(s)

\* A connection starts a delete of any id for any caller.
DeleteExecuting ==
  \E s \in Sessions, record_id \in 1..MaxId, caller \in Callers :
    DeleteExecute(s, record_id, caller.user_id)

DeleteCommitting == \E s \in Sessions : DeleteCommit(s)

NextConcurrent ==
  \/ InsertExecuting
  \/ InsertCommitting
  \/ DeleteExecuting
  \/ DeleteCommitting
  \/ Tick

SpecConcurrent == Init /\ [][NextConcurrent]_vars

\* ================================================================ claims

\* A text made of whitespace only (the empty text included).
IsBlank(t) == \A i \in DOMAIN t : t[i] \in Whitespace

\* b is t without its leading and trailing whitespace.
IsTrimOf(b, t) ==
  /\ b # << >>
  /\ b[1] \notin Whitespace
  /\ b[Len(b)] \notin Whitespace
  /\ \E lead \in 0..Len(t) :
       /\ lead + Len(b) <= Len(t)
       /\ b = SubSeq(t, lead + 1, lead + Len(b))
       /\ \A i \in 1..Len(t) : (i <= lead \/ i > lead + Len(b)) => t[i] \in Whitespace

\* The rows that hold record_id for user_id.
Held(record_id, user_id) ==
  { row \in feedback : row.id = record_id /\ row.user_id = user_id }

\* C1 (SpecStore): delete_feedback(id, user_id) returns true exactly when the
\* table holds, at the call, a row with that id whose user_id is the given one,
\* and then removes exactly that row; in every other case (an id never
\* assigned, another user's row, a row deleted before) it returns false and
\* leaves the table as it was.
C1_DeleteContract ==
  [][ \A record_id \in 1..MaxId, caller \in Callers :
        CallDelete(record_id, caller.user_id) =>
          /\ ret'.result = (Held(record_id, caller.user_id) # { })
          /\ Cardinality(Held(record_id, caller.user_id)) <= 1
          /\ feedback' = feedback \ Held(record_id, caller.user_id)
          /\ ~ret'.result => feedback' = feedback
          /\ sqlite_sequence' = sqlite_sequence ]_vars

\* C1 witness: a delete returned true, its row is gone, another row is still
\* stored.
C1_Witness ==
  /\ ret.op = "delete"
  /\ ret.result
  /\ ret.id <= sqlite_sequence
  /\ feedback # { }
  /\ \A row \in feedback : row.id # ret.id

\* C2 (SpecStore): a row leaves the table only in a delete_feedback call made
\* with the row's own user_id; a call made with another user_id returns false,
\* leaves the row stored, and a list of the row's (step, section) made then
\* still shows it.
C2_OnlyOwnerDeletes ==
  [][ /\ \A row \in feedback \ feedback' : CallDelete(row.id, row.user_id)
      /\ \A record_id \in 1..MaxId, caller \in Callers :
           CallDelete(record_id, caller.user_id) =>
             \A row \in feedback :
               (row.id = record_id /\ row.user_id # caller.user_id) =>
                 /\ ~ret'.result
                 /\ row \in feedback'
                 /\ \A listing \in get_feedback(row.step, row.section)' :
                      \E i \in DOMAIN listing : listing[i].id = row.id ]_vars

\* C2 witness: a delete by another user than the owner was refused and the row
\* is still stored.
C2_Witness ==
  /\ ret.op = "delete"
  /\ ~ret.result
  /\ \E row \in feedback : row.id = ret.id /\ row.user_id # ret.user_id

\* The rows a list of (step, section) is to return.
Matching(step_name, section) ==
  IF section = None \/ section = ""
    THEN { row \in feedback : row.step = step_name }
    ELSE { row \in feedback : row.step = step_name /\ row.section = section }

\* C3 (SpecStore): get_feedback(step, section) with a non-empty section
\* returns exactly the stored rows of that step and section, each once, in
\* non-decreasing created_at order; with the section left out or empty it
\* returns every stored row of the step.
C3_ListExact ==
  ret.op = "get" =>
    /\ Range(ret.result) = Matching(ret.step, ret.section)
    /\ Len(ret.result) = Cardinality(Matching(ret.step, ret.section))
    /\ \A i, j \in DOMAIN ret.result :
         i < j => ret.result[i].created_at <= ret.result[j].created_at

\* C3 witness: a list of a step and section returned a row while the step
\* holds a row of another section.
C3_Witness ==
  /\ ret.op = "get"
  /\ ret.section \notin { None, "" }
  /\ Len(ret.result) >= 1
  /\ \E row \in feedback : row.step = ret.step /\ row.section # ret.section

\* C4 (SpecStore), as claimed: get_feedback returns the rows in submission
\* order, rows of equal created_at included, so ids ascend along every list.
C4_SubmissionOrder ==
  ret.op = "get" =>
    \A i, j \in DOMAIN ret.result : i < j => ret.result[i].id < ret.result[j].id

\* C5 (SpecWizard): after any sequence of logins, Previous and Next clicks
\* every session's current_step is an integer of 0..N-1 with N = 5, so
\* WIZARD_STEPS[current_step] is defined.
C5_StepInRange ==
  /\ total_steps = 5
  /\ \A s \in Sessions :
       /\ session_state[s].current_step \in 0..(total_steps - 1)
       /\ session_state[s].current_step + 1 \in DOMAIN WIZARD_STEPS

\* C5 witness: a Next click was served at the last index and the session is
\* still there.
C5_Witness ==
  \E s \in Sessions :
    /\ page[s].view = "wizard"
    /\ page[s].served = "Next"
    /\ page[s].nav = total_steps - 1
    /\ session_state[s].current_step = total_steps - 1

\* C6 (SpecWizard): Previous takes the index i to i-1, and 0 to 0; Next takes
\* i to i+1, and N-1 to N-1; both are defined at every index, and no step of a
\* session moves its index by more than one.
C6_Navigation ==
  [][ \A s \in Sessions :
        LET i == session_state[s].current_step
            j == session_state'[s].current_step
        IN  /\ Previous(s) => j = (IF i = 0 THEN 0 ELSE i - 1)
            /\ NextStep(s) => j = (IF i = total_steps - 1 THEN i ELSE i + 1)
            /\ j - i \in { -1, 0, 1 }
            /\ \A k \in 0..(total_steps - 1) :
                 previous(k) \in 0..(total_steps - 1) /\ next(k) \in 0..(total_steps - 1)
    ]_vars

\* C6 witness: a Previous click was served at index 0 and the session is
\* still at 0.
C6_Witness ==
  \E s \in Sessions :
    /\ page[s].view = "wizard"
    /\ page[s].served = "Previous"
    /\ page[s].nav = 0
    /\ session_state[s].current_step = 0

\* C7 (SpecStore): a submitted text that is empty or whitespace only creates
\* no row and leaves the table as it was; any other text is stored without
\* its leading and trailing whitespace; so no stored row has an empty or
\* whitespace-only body.
C7_BlankRejected ==
  [][ /\ \A caller \in Callers, partition \in StorePartitions, text \in BodyInputs :
           CallSubmit(caller, partition, text) =>
             IF IsBlank(text)
               THEN feedback' = feedback /\ sqlite_sequence' = sqlite_sequence
               ELSE \E row \in feedback' \ feedback :
                      /\ feedback' = feedback \cup { row }
                      /\ IsTrimOf(row.feedback, text)
      /\ \A row \in feedback' : ~IsBlank(row.feedback) ]_vars

\* C7 witness: a whitespace-only text was submitted and rejected while the
\* table holds a row.
C7_Witness ==
  /\ ret.op = "submit"
  /\ ret.text # << >>
  /\ IsBlank(ret.text)
  /\ ret.id = 0
  /\ feedback # { }

\* C8 (SpecLogin): a login with an empty or whitespace-only name stores the
\* display name "Anonymous"; with any other name it stores the name without
\* its leading and trailing whitespace.
C8_BlankNameAnonymous ==
  [][ \A s \in Sessions, user_name \in Texts(MaxLen), token \in UUIDS :
        LoginWith(s, PASSCODE, user_name, token) =>
          /\ session_state'[s].logged_in
          /\ IF IsBlank(user_name)
               THEN session_state'[s].user_name = Anonymous
               ELSE IsTrimOf(session_state'[s].user_name, user_name) ]_vars

\* C8 witness: one session is logged in as Anonymous and another under a
\* name with a blank inside.
C8_Witness ==
  \E s, t \in Sessions :
    /\ session_state[s].logged_in
    /\ session_state[s].user_name = Anonymous
    /\ session_state[t].logged_in
    /\ session_state[t].user_name = << "P", " ", "P" >>

\* The key the derivation rules give a selection.
RuleKey(k) ==
  CASE k.step = "Introduction" -> "GeneralIntro"
    [] k.step = "Method Categories" ->
         IF k.sel[1] = "General" THEN "GeneralCategories" ELSE k.sel[1]
    [] k.step = "Parent Attributes" ->
         IF k.sel[1] = "General" THEN "GeneralAttributes" ELSE k.sel[1]
    [] k.step = "Child Attributes" ->
         k.sel[1] \o " | " \o k.sel[2] \o " | " \o k.sel[3]
    [] k.step = "Final Comments" -> "OverallFinal"

\* C9 (SpecKey): the key derived for a selection is the one the rules give
\* for its step: a constant for Introduction and Final Comments, the chosen
\* label or the step's General key for Method Categories and Parent
\* Attributes, "<category> | <parent> | <child or General>" for Child
\* Attributes; equal selections derive equal keys.
C9_KeyRules ==
  /\ \A i \in { 1, 2 } :
       kkey[i] # NotDerived =>
         /\ kkey[i] = RuleKey(ksel[i])
         /\ ksel[i] = [ step |-> "Child Attributes",
                        sel |-> << "Simulations", "Maturity", "Validation Level" >> ]
              => kkey[i] = "Simulations | Maturity | Validation Level"
  /\ (kkey[1] # NotDerived /\ kkey[2] # NotDerived /\ ksel[1] = ksel[2])
       => kkey[1] = kkey[2]

\* C9 witness: a Child Attributes key and a Method Categories General key
\* have been derived.
C9_Witness ==
  /\ ksel[1].step = "Child Attributes"
  /\ ksel[1].sel[3] # "General"
  /\ kkey[1] # NotDerived
  /\ ksel[2] = [ step |-> "Method Categories", sel |-> << "General" >> ]
  /\ kkey[2] = "GeneralCategories"

\* C10 (SpecKey): two Child Attributes selections of the shipped taxonomy
\* that differ in the category, the parent attribute or the child attribute
\* derive different keys.
C10_ChildKeyInjective ==
  ( /\ ksel[1].step = "Child Attributes"
    /\ ksel[2].step = "Child Attributes"
    /\ kkey[1] # NotDerived
    /\ kkey[2] # NotDerived
    /\ ksel[1].sel # ksel[2].sel )
  => kkey[1] # kkey[2]

\* C10 witness: the keys of "Setup Time" under Characterization and under
\* Testing have been derived.
C10_Witness ==
  /\ ksel[1] = [ step |-> "Child Attributes",
                 sel |-> << "Characterization", "Integration Complexity", "Setup Time" >> ]
  /\ ksel[2] = [ step |-> "Child Attributes",
                 sel |-> << "Testing", "Integration Complexity", "Setup Time" >> ]
  /\ kkey[1] # NotDerived
  /\ kkey[2] # NotDerived


\* The Child Attributes selections whose key is derived.
DerivedChild ==
  { i \in { 1, 2 } : kkey[i] # NotDerived /\ ksel[i].step = "Child Attributes" }

\* C11 as stated (SpecKey): a pair without child attributes gives the choice
\* "General", empty description and scoring and a three-part key, and
\* ("Testing", "Utility") is such a pair, whose key is
\* "Testing | Utility | General".
C11_TestingUtilityWithoutChildren ==
  \A i \in DerivedChild :
    LET cat_choice == ksel[i].sel[1]
        attr_choice == ksel[i].sel[2]
        child_feat_choice == ksel[i].sel[3]
    IN  /\ child_attrs(cat_choice, attr_choice) = << >> =>
             /\ child_feat_choice = "General"
             /\ child_description(cat_choice, attr_choice, child_feat_choice) = ""
             /\ child_scoring(cat_choice, attr_choice, child_feat_choice) = ""
             /\ kkey[i] = cat_choice \o " | " \o attr_choice \o " | General"
        /\ (cat_choice = "Testing" /\ attr_choice = "Utility") =>
             /\ child_attrs(cat_choice, attr_choice) = << >>
             /\ child_feat_choice = "General"
             /\ kkey[i] = "Testing | Utility | General"

\* C11 amended (SpecKey): every pair the wizard offers has child attributes,
\* ("Testing", "Utility") has two, and "General" is a choice of every pair;
\* with the choice "General" the description and the scoring are empty and the
\* key is the three-part "<category> | <parent> | General", for
\* ("Testing", "Utility", "General") the key "Testing | Utility | General".
C11_GeneralChoice ==
  \A i \in DerivedChild :
    LET cat_choice == ksel[i].sel[1]
        attr_choice == ksel[i].sel[2]
        child_feat_choice == ksel[i].sel[3]
    IN  /\ child_attrs(cat_choice, attr_choice) # << >>
        /\ "General" \in child_feat_choices(cat_choice, attr_choice)
        /\ child_feat_choice = "General" =>
             /\ child_description(cat_choice, attr_choice, child_feat_choice) = ""
             /\ child_scoring(cat_choice, attr_choice, child_feat_choice) = ""
             /\ kkey[i] = cat_choice \o " | " \o attr_choice \o " | General"
        /\ (cat_choice = "Testing" /\ attr_choice = "Utility") =>
             /\ Len(child_attrs(cat_choice, attr_choice)) = 2
             /\ child_feat_choice = "General" =>
                  kkey[i] = "Testing | Utility | General"

\* C11 witness: the keys of ("Testing", "Utility", "General") and of a child
\* attribute of the same pair, which has a description, are derived.
C11_Witness ==
  /\ DerivedChild = { 1, 2 }
  /\ ksel[1].sel = << "Testing", "Utility", "General" >>
  /\ kkey[1] = "Testing | Utility | General"
  /\ ksel[2].sel = << "Testing", "Utility", "Data Quality for Scale-up" >>
  /\ child_description("Testing", "Utility", ksel[2].sel[3]) # ""

\* The entries of a list that show record_id.
Showing(listing, record_id) ==
  { i \in DOMAIN listing : listing[i].id = record_id }

\* C12 (SpecScenario): a submit by a caller with display name D and body B
\* stores a record that every list of its (step, section) shows once, with the
\* caller's user_id, D and B trimmed; a stored record stays so shown through
\* every step but a delete_feedback call made with its own user_id; and when
\* the only submit ever made is " Looks good\n" or "Looks good" by
\* "A. Partner" on Introduction/GeneralIntro the list is exactly that record.
C12_SubmittedIsListed ==
  [][ /\ \A caller \in ScenarioCallers, partition \in ScenarioPartitions,
            text \in ScenarioBodies :
           (CallSubmit(caller, partition, text) /\ ~IsBlank(text)) =>
             \A listing \in get_feedback(partition[1], partition[2])' :
               \E i \in DOMAIN listing :
                 /\ Showing(listing, sqlite_sequence') = { i }
                 /\ listing[i].user_id = caller.user_id
                 /\ listing[i].user_name = caller.user_name
                 /\ IsTrimOf(listing[i].feedback, text)
      /\ \A row \in feedback :
           \/ /\ ret'.op = "delete"
              /\ ret'.id = row.id
              /\ ret'.user_id = row.user_id
           \/ \A listing \in get_feedback(row.step, row.section)' :
                \E i \in DOMAIN listing :
                  /\ Showing(listing, row.id) = { i }
                  /\ listing[i] = Entry(row)
      /\ ( /\ ret'.op = "get"
           /\ ret'.step = "Introduction"
           /\ ret'.section = "GeneralIntro"
           /\ sqlite_sequence' = 1
           /\ \E row \in feedback' :
                row.step = "Introduction" /\ row.user_name = APartner ) =>
             /\ Len(ret'.result) = 1
             /\ ret'.result[1].user_name = APartner
             /\ ret'.result[1].feedback = LooksGood ]_vars

\* C12 witness: the partner's submit is the only one made, a second has
\* passed, and the list of Introduction/GeneralIntro returned the one record.
C12_Witness ==
  /\ ret.op = "get"
  /\ ret.step = "Introduction"
  /\ ret.section = "GeneralIntro"
  /\ sqlite_sequence = 1
  /\ clock > 0
  /\ Len(ret.result) = 1
  /\ ret.result[1].user_id = "u1"
  /\ ret.result[1].user_name = APartner
  /\ ret.result[1].feedback = LooksGood

\* C13 (Spec): once a session is logged in, no step of any session (login of
\* another, re-run, Previous, Next, pick, submit, list, delete, clock) changes
\* its user_id or user_name or logs it out.
C13_IdentityFixed ==
  [][ \A s \in Sessions :
        session_state[s].logged_in =>
          /\ session_state'[s].logged_in
          /\ session_state'[s].user_id = session_state[s].user_id
          /\ session_state'[s].user_name = session_state[s].user_name ]_vars

\* C13 witness: a session that moved on from the introduction has submitted
\* and then deleted its record, and the other session is logged in too.
C13_Witness ==
  \E s, t \in Sessions :
    /\ s # t
    /\ session_state[t].logged_in
    /\ session_state[s].logged_in
    /\ session_state[s].current_step > 0
    /\ page[s].view = "wizard"
    /\ page[s].served = "delete"
    /\ page[s].notice = "Your feedback has been deleted"

\* The sessions whose delete click is served in this step.
Deleters == { s \in Sessions : pc[s] = "display" /\ pc'[s] = "idle" }

\* C14 (Spec): a login stores a user_id that no login stored before and no
\* other session holds; logged-in sessions hold pairwise different user_ids;
\* a record carries the user_id of the session that submitted it and leaves
\* the table only in a delete served for the one session holding that
\* user_id.
C14_FreshUserId ==
  [][ /\ \A s \in Sessions :
           (~session_state[s].logged_in /\ session_state'[s].logged_in) =>
             /\ session_state'[s].user_id \notin issued
             /\ session_state'[s].user_id \in issued'
             /\ session_state'[s].user_id # ""
             /\ \A t \in Sessions \ { s } :
                  session_state'[s].user_id # session_state'[t].user_id
      /\ \A s, t \in Sessions :
           (s # t /\ session_state'[s].logged_in /\ session_state'[t].logged_in) =>
             session_state'[s].user_id # session_state'[t].user_id
      /\ \A row \in feedback' \ feedback :
           \E s \in Sessions :
             /\ pc[s] = "idle" /\ pc'[s] = "list"
             /\ session_state[s].logged_in
             /\ row.user_id = session_state[s].user_id
      /\ \A row \in feedback \ feedback' :
           /\ Deleters # { }
           /\ \A s \in Deleters : session_state[s].user_id = row.user_id
           /\ \A t \in Sessions \ Deleters : session_state[t].user_id # row.user_id
    ]_vars

\* C14 witness: both sessions are logged in and one shows a record of the
\* other, without a Delete button.
C14_Witness ==
  \E s, t \in Sessions :
    /\ s # t
    /\ session_state[s].logged_in
    /\ session_state[t].logged_in
    /\ page[s].view = "wizard"
    /\ \E i \in DOMAIN page[s].entries :
         page[s].entries[i].user_id = session_state[t].user_id
    /\ delete_buttons(page[s].entries, session_state[s].user_id) = { }

\* The ids of the stored rows.
StoredIds == { row.id : row \in feedback }

\* C15 (SpecStore): an accepted submit adds exactly one row and removes none;
\* the row's id is greater than sqlite_sequence, the largest id assigned so
\* far, which no step lowers and no stored id exceeds, so the id is greater
\* than that of every row stored or deleted; a row equal to a stored one in
\* user, step, section and body is added as a second row; stored ids differ.
C15_FreshIds ==
  [][ /\ \A caller \in Callers, partition \in StorePartitions, text \in BodyInputs :
           (CallSubmit(caller, partition, text) /\ ~IsBlank(text)) =>
             /\ feedback \subseteq feedback'
             /\ Cardinality(feedback') = Cardinality(feedback) + 1
             /\ \A row \in feedback' \ feedback :
                  /\ row.id > sqlite_sequence
                  /\ row.id = sqlite_sequence'
                  /\ \A old \in feedback : row.id > old.id
      /\ sqlite_sequence' >= sqlite_sequence
      /\ \A row \in feedback' : row.id \in 1..sqlite_sequence'
      /\ \A row, other \in feedback' : row.id = other.id => row = other
      /\ StoredIds' \ StoredIds \subseteq (sqlite_sequence + 1)..sqlite_sequence'
    ]_vars

\* C15 witness: the second submit got id 2 after the row with id 1 was
\* deleted.
C15_Witness ==
  /\ ret.op = "submit"
  /\ ret.id = 2
  /\ StoredIds = { 2 }

\* C16 (SpecStore): a stored row is in the next state as it is or its id is
\* stored no more; a step that is or follows a submit keeps every stored row,
\* one that is or follows a delete every row but the one with the id and
\* user_id given, one that is or follows a list the whole table and the id
\* counter (the step following a call is one of the clock).
C16_RowsImmutable ==
  [][ /\ \A row \in feedback : row \in feedback' \/ row.id \notin StoredIds'
      /\ ret'.op = "submit" => feedback \subseteq feedback'
      /\ ret'.op = "delete" =>
           /\ feedback' \subseteq feedback
           /\ \A row \in feedback :
                (row.id # ret'.id \/ row.user_id # ret'.user_id) => row \in feedback'
      /\ ret'.op = "get" =>
           (feedback' = feedback /\ sqlite_sequence' = sqlite_sequence)
      /\ ret' # ret \/ feedback' = feedback
    ]_vars

\* C16 witness: a delete removed a row and another row, submitted by the same
\* user, is still stored.
C16_Witness ==
  /\ ret.op = "delete"
  /\ ret.result
  /\ \E row \in feedback : row.user_id = ret.user_id /\ row.id # ret.id

\* The connections with an INSERT executed and not committed.
Inserting == { s \in Sessions : pc[s] = "insert" }

\* C17 (SpecConcurrent): with adds and deletes of two connections interleaved
\* statement by statement, the commit of an add stores its row, one row more
\* than before, under an id no stored row and no other open add has; an open
\* add stays open or is stored; stored ids are pairwise different; a delete
\* returns true exactly when its commit removes the row, and an id once
\* removed is stored no more, so at most one delete of a record returns true.
C17_AtomicWrites ==
  [][ /\ \A s \in Inserting :
           /\ run[s].row.id \notin StoredIds
           /\ \A t \in Inserting \ { s } : run[t].row.id # run[s].row.id
           /\ pc'[s] = "insert" \/ run[s].row \in feedback'
           /\ pc'[s] = "idle" =>
                /\ feedback' = feedback \cup { run[s].row }
                /\ Cardinality(feedback') = Cardinality(feedback) + 1
      /\ \A row, other \in feedback' : row.id = other.id => row = other
      /\ \A s \in Sessions :
           (pc[s] = "delete" /\ pc'[s] = "idle") =>
             /\ ret'.op = "delete"
             /\ ret'.id = run[s].id
             /\ ret'.result <=> Held(run[s].id, run[s].user_id) # { }
             /\ ret'.result => run[s].id \notin StoredIds'
      /\ \A id \in 1..sqlite_sequence : id \notin StoredIds => id \notin StoredIds'
    ]_vars

\* C17 witness: a delete of a record returned true, a second delete of the
\* same record, executed after it, found no row, and the other of two adds
\* made before is stored under its own id.
C17_Witness ==
  /\ ret.op = "delete"
  /\ ret.result
  /\ StoredIds = { 1, 2 } \ { ret.id }
  /\ \E s \in Sessions :
       /\ pc[s] = "delete"
       /\ run[s].id = ret.id
       /\ run[s].user_id = ret.user_id
       /\ run[s].rowcount = 0

\* The page a session is shown at the end of a script run that served a
\* submit, a delete, Previous or Next.
Mutating == { "submit", "delete", "Previous", "Next" }

\* C18 as stated (Spec): the page rendered at the end of a submit, a delete, a
\* Previous or a Next shows exactly the records then stored for its step and
\* section, and its progress line is that of the step whose content it shows.
C18_DisplayAgrees ==
  [][ \A s \in Sessions :
        ( /\ page'[s] # page[s]
          /\ page'[s].view = "wizard"
          /\ page'[s].served \in Mutating ) =>
            /\ page'[s].nav = page'[s].step
            /\ Range(page'[s].entries) =
                 { Entry(row) : row \in
                     { r \in feedback' : /\ r.step = step_name_of(page'[s].step)
                                         /\ r.section = page'[s].section } }
    ]_vars

\* C19 as stated (SpecWizard): a page that shows the content of index 0 shows
\* Previous disabled, one that shows the content of index N-1 shows Next
\* disabled.
C19_DisabledAtBoundary ==
  \A s \in Sessions :
    page[s].view = "wizard" =>
      /\ page[s].step = 0 => previous_disabled(page[s].nav)
      /\ page[s].step = total_steps - 1 => next_disabled(page[s].nav)

\* How far the session is from showing the step target: twice the distance
\* of the indices, and three more when the button towards target is shown
\* disabled, so that one click the other way comes first.
Rank(s, target) ==
  LET current_step == session_state[s].current_step
      nav == IF page[s].view = "wizard" THEN page[s].nav ELSE current_step
      dist == IF target >= current_step THEN target - current_step
              ELSE current_step - target
      blocked == \/ target > current_step /\ next_disabled(nav)
                 \/ target < current_step /\ previous_disabled(nav)
  IN  2 * dist + (IF blocked THEN 3 ELSE 0)

\* C20 (Spec): a session just logged in is at index 0; a script run in
\* progress can finish; on every wizard page a Previous or a Next click is
\* possible that brings the session nearer to
\* every step after it, and one nearer to every step before it (Rank falls,
\* so finitely many such clicks reach the step, from Final Comments too and
\* back to it); a submit is possible on every wizard page
\* (while the model's table has room) and a delete of every record the page
\* shows with a Delete button.
C20_NoLockingState ==
  \A s \in Sessions :
    /\ (session_state[s].logged_in /\ page[s].view = "login") =>
         /\ session_state[s].current_step = 0
         /\ ENABLED Rerun(s)
    /\ pc[s] # "idle" => ENABLED (ListFeedback(s) \/ DeleteServe(s))
    /\ (pc[s] = "idle" /\ page[s].view = "wizard") =>
         /\ session_state[s].logged_in
         /\ session_state[s].current_step < total_steps - 1 =>
              ENABLED ( /\ Previous(s) \/ NextStep(s)
                        /\ \A target \in 0..(total_steps - 1) :
                             target > session_state[s].current_step =>
                               Rank(s, target)' < Rank(s, target) )
         /\ session_state[s].current_step > 0 =>
              ENABLED ( /\ Previous(s) \/ NextStep(s)
                        /\ \A target \in 0..(total_steps - 1) :
                             target < session_state[s].current_step =>
                               Rank(s, target)' < Rank(s, target) )
         /\ sqlite_sequence < MaxSubmits => ENABLED Submit(s)
         /\ delete_buttons(page[s].entries, session_state[s].user_id) # { } =>
              ENABLED DeleteClick(s)

\* C20 witness: a session that submitted its record on Final Comments has
\* left the step and entered it again by Next.
C20_Witness ==
  \E s \in Sessions :
    /\ \E row \in feedback :
         row.user_id = session_state[s].user_id /\ row.step = "Final Comments"
    /\ page[s].view = "wizard"
    /\ page[s].served = "Next"
    /\ page[s].nav = total_steps - 2
    /\ page[s].step = total_steps - 1

\* What session t holds and is shown is left as it is.
SessionUntouched(t) ==
  /\ session_state'[t] = session_state[t]
  /\ widgets'[t] = widgets[t]
  /\ page'[t] = page[t]
  /\ pc'[t] = pc[t]
  /\ run'[t] = run[t]

AtDeleteButton == { s \in Sessions : pc[s] = "display" }

\* C22 (Spec): a script run that comes to call delete_feedback, that is, one
\* whose fetched entries show the clicked Delete button, calls it for a
\* record that is stored and carries the session's own user_id, whatever the
\* other sessions did in between, so the call returns true; no page shows
\* "Failed to delete feedback".
C22_DeleteNeverFails ==
  \A s \in Sessions :
    /\ page[s].view = "wizard" => page[s].notice # "Failed to delete feedback"
    /\ s \in AtDeleteButton =>
         /\ run[s].kind = "delete"
         /\ run[s].id \in delete_buttons(run[s].entries, session_state[s].user_id) =>
              /\ Held(run[s].id, session_state[s].user_id) # { }
              /\ delete_result(rowcount(run[s].id, session_state[s].user_id))

\* C22 witness: a session was told its record is deleted while the page of
\* another logged-in session, rendered before, still lists that record.
C22_Witness ==
  \E s \in Sessions, t \in Sessions :
    /\ s # t
    /\ page[s].view = "wizard"
    /\ page[s].served = "delete"
    /\ page[s].notice = "Your feedback has been deleted"
    /\ page[t].view = "wizard"
    /\ \E i \in DOMAIN page[t].entries :
         /\ page[t].entries[i].user_id = session_state[s].user_id
         /\ page[t].entries[i].id \notin StoredIds

\* The keys of the taxonomy for the Child Attributes step: a category, one of
\* its parent attributes, and General or one of the child attributes listed
\* under the two.
TaxonomyChildKeys ==
  UNION { { cat \o " | " \o attr \o " | " \o child :
              child \in { "General" } \cup Range(CHILD_ATTRIBUTES_DICT[cat][attr]) } :
            cat \in DOMAIN CHILD_ATTRIBUTES_DICT,
            attr \in Range(PARENT_ATTRIBUTES) }

\* The sections a record of a step may carry.
TaxonomySections(step_name) ==
  CASE step_name = "Introduction" -> { "GeneralIntro" }
    [] step_name = "Method Categories" ->
         Range(METHOD_CATEGORIES) \cup { "GeneralCategories" }
    [] step_name = "Parent Attributes" ->
         Range(PARENT_ATTRIBUTES) \cup { "GeneralAttributes" }
    [] step_name = "Child Attributes" -> TaxonomyChildKeys
    [] step_name = "Final Comments" -> { "OverallFinal" }
    [] OTHER -> { }

\* C23 (Spec): every stored record carries one of the five step names and a
\* section of that step: "GeneralIntro" on Introduction, "OverallFinal" on
\* Final Comments, a category or "GeneralCategories" on Method Categories, a
\* parent attribute or "GeneralAttributes" on Parent Attributes, and on Child
\* Attributes a key "category | parent attribute | child" whose child is
\* General or a child attribute the taxonomy lists under that category and
\* parent attribute.
C23_ValidPartition ==
  \A row \in feedback :
    /\ row.step \in Range(WIZARD_STEPS)
    /\ row.section \in TaxonomySections(row.step)

\* C23 witness: a record is stored on Child Attributes under the key of a
\* child attribute that is not General.
C23_Witness ==
  \E row \in feedback :
    /\ row.step = "Child Attributes"
    /\ row.section = "Testing | Integration Complexity | Setup Time"
    /\ \E s \in Sessions :
         /\ session_state[s].user_id = row.user_id
         /\ page[s].view = "wizard"
         /\ page[s].served = "submit"
         /\ \E i \in DOMAIN page[s].entries : page[s].entries[i].id = row.id

\* The sessions that entered the passcode and hold user_id.
LoggedInAs(user_id) ==
  { s \in Sessions : session_state[s].logged_in /\ session_state[s].user_id = user_id }

====
